---------------------------- MODULE Spec2Model ----------------------------
(***************************************************************************)
(* Colour resolution of cursive's theming: ColorType / ColorStyle          *)
(* (cursive-core/src/theme/color_style.rs).                                *)
(*                                                                         *)
(* The file is a library of pure value functions.  They are exercised by   *)
(* the pipeline the library is written for: nested UI elements contribute  *)
(* ColorStyle overrides one after the other; every override is built by    *)
(* one of the constructors / conversions, merged over the style in effect  *)
(* (ColorStyle::merge) and resolved against the palette and the colour     *)
(* pair of the enclosing context (ColorStyle::resolve).                    *)
(***************************************************************************)
EXTENDS Naturals, Sequences, FiniteSets

(***************************************************************************)
(* Bounds.                                                                 *)
(***************************************************************************)
\* Overrides layered in one run of Spec (all constructors and conversions).
MaxLayers == 2
\* Overrides folded in one run of SpecFold (ColorStyle::new overrides only).
MaxDepth == 3

(***************************************************************************)
(* External value types (super::{BaseColor, Color, ColorPair, Palette,     *)
(* PaletteColor}); only their shape is used here.                          *)
(***************************************************************************)
BaseColor == {"Black", "Red", "Green", "Yellow", "Blue", "Magenta", "Cyan", "White"}

TerminalDefault == [kind |-> "TerminalDefault", base |-> "None"]
Dark(b) == [kind |-> "Dark", base |-> b]
Light(b) == [kind |-> "Light", base |-> b]

Color == {TerminalDefault} \cup {Dark(b) : b \in BaseColor} \cup {Light(b) : b \in BaseColor}

PaletteColor ==
    {"Background", "Shadow", "View", "Primary", "Secondary", "Tertiary",
     "TitlePrimary", "TitleSecondary", "Highlight", "HighlightInactive",
     "HighlightText"}

ColorPair(f, b) == [front |-> f, back |-> b]

\* Two palettes, both with a different colour for every role, and differing
\* from each other on every role.
PaletteA ==
    [r \in PaletteColor |->
        CASE r = "Background"        -> Dark("Blue")
          [] r = "Shadow"            -> Light("Black")
          [] r = "View"              -> Dark("Black")
          [] r = "Primary"           -> Dark("Green")
          [] r = "Secondary"         -> Dark("Yellow")
          [] r = "Tertiary"          -> Light("White")
          [] r = "TitlePrimary"      -> Dark("Red")
          [] r = "TitleSecondary"    -> Light("Red")
          [] r = "Highlight"         -> Light("Blue")
          [] r = "HighlightInactive" -> Dark("Cyan")
          [] r = "HighlightText"     -> Dark("White")]

PaletteB ==
    [r \in PaletteColor |->
        CASE r = "Background"        -> Dark("Black")
          [] r = "Shadow"            -> Dark("Blue")
          [] r = "View"              -> Light("White")
          [] r = "Primary"           -> Light("Black")
          [] r = "Secondary"         -> Dark("Cyan")
          [] r = "Tertiary"          -> Dark("Yellow")
          [] r = "TitlePrimary"      -> Light("Red")
          [] r = "TitleSecondary"    -> Dark("Red")
          [] r = "Highlight"         -> Dark("Magenta")
          [] r = "HighlightInactive" -> Light("Blue")
          [] r = "HighlightText"     -> Light("Yellow")]

Palettes == {PaletteA, PaletteB}

\* palette lookup of a role: PaletteColor::resolve(palette)
PaletteColor_resolve(color, palette) == palette[color]

(***************************************************************************)
(* enum ColorType { Palette(PaletteColor), Color(Color), InheritParent }   *)
(***************************************************************************)
CT_Palette(r) == [tag |-> "Palette", role |-> r]
CT_Color(c) == [tag |-> "Color", color |-> c]
InheritParent == [tag |-> "InheritParent"]

ColorType == {CT_Palette(r) : r \in PaletteColor} \cup {CT_Color(c) : c \in Color} \cup {InheritParent}

ColorType_default == InheritParent

\* impl From<Color> for ColorType
ColorType_from_Color(color) == CT_Color(color)

\* impl From<PaletteColor> for ColorType
ColorType_from_PaletteColor(color) == CT_Palette(color)

\* A value handed to a generic parameter F: Into<ColorType>: a Color, a
\* PaletteColor or a ColorType, tagged with its static type.
AsColor(c) == [ty |-> "Color", val |-> c]
AsPaletteColor(r) == [ty |-> "PaletteColor", val |-> r]
AsColorType(t) == [ty |-> "ColorType", val |-> t]

\* x.into(): Into<ColorType>, through the From impls (identity on ColorType)
Into_ColorType(x) ==
    CASE x.ty = "Color"        -> ColorType_from_Color(x.val)
      [] x.ty = "PaletteColor" -> ColorType_from_PaletteColor(x.val)
      [] x.ty = "ColorType"    -> x.val

\* Mutation: the InheritParent arm falls back to the terminal's colour.
ColorType_resolve_no_inherit(self, palette, previous) ==
    CASE self.tag = "Color"         -> self.color
      [] self.tag = "Palette"       -> PaletteColor_resolve(self.role, palette)
      [] self.tag = "InheritParent" -> TerminalDefault

\* Mutation: the Palette arm is treated like InheritParent.
ColorType_resolve_no_palette(self, palette, previous) ==
    CASE self.tag = "Color"         -> self.color
      [] self.tag = "Palette"       -> previous
      [] self.tag = "InheritParent" -> previous

ColorType_resolve(self, palette, previous) ==
    CASE self.tag = "Color"         -> self.color
      [] self.tag = "Palette"       -> PaletteColor_resolve(self.role, palette)
      [] self.tag = "InheritParent" -> previous

\* Mutation: the match is on `a` instead of `b` (first non-inherit wins).
ColorType_merge_first(a, b) ==
    IF a = InheritParent THEN b ELSE a

\* Mutation: the arms of the match are exchanged.
ColorType_merge_arms(a, b) ==
    IF b = InheritParent THEN b ELSE a

ColorType_merge(a, b) ==
    IF b = InheritParent THEN a ELSE b

(***************************************************************************)
(* struct ColorStyle { front: ColorType, back: ColorType }                 *)
(***************************************************************************)
ColorStyle_new(front, back) ==
    [front |-> Into_ColorType(front), back |-> Into_ColorType(back)]

\* Mutation: the given colour is used for both channels.
ColorStyle_front_both(front) == ColorStyle_new(front, front)

ColorStyle_front(front) == ColorStyle_new(front, AsColorType(InheritParent))

ColorStyle_back(back) == ColorStyle_new(AsColorType(InheritParent), back)

\* Mutation: the back channel is not replaced by the front.
ColorStyle_invert_half(self) == [front |-> self.back, back |-> self.back]

ColorStyle_invert(self) == [front |-> self.back, back |-> self.front]

ColorStyle_inherit_parent ==
    ColorStyle_new(AsColorType(InheritParent), AsColorType(InheritParent))

\* #[derive(Default)]: both fields ColorType::default()
ColorStyle_default == [front |-> ColorType_default, back |-> ColorType_default]

ColorStyle_terminal_default ==
    ColorStyle_new(AsColor(TerminalDefault), AsColor(TerminalDefault))

ColorStyle_background ==
    ColorStyle_new(AsPaletteColor("Background"), AsPaletteColor("Background"))

ColorStyle_shadow ==
    ColorStyle_new(AsPaletteColor("Shadow"), AsPaletteColor("Shadow"))

ColorStyle_primary ==
    ColorStyle_new(AsPaletteColor("Primary"), AsPaletteColor("View"))

ColorStyle_secondary ==
    ColorStyle_new(AsPaletteColor("Secondary"), AsPaletteColor("View"))

ColorStyle_tertiary ==
    ColorStyle_new(AsPaletteColor("Tertiary"), AsPaletteColor("View"))

ColorStyle_title_primary ==
    ColorStyle_new(AsPaletteColor("TitlePrimary"), AsPaletteColor("View"))

ColorStyle_title_secondary ==
    ColorStyle_new(AsPaletteColor("TitleSecondary"), AsPaletteColor("View"))

\* Mutation: the two roles of the preset are exchanged.
ColorStyle_highlight_swapped ==
    ColorStyle_new(AsPaletteColor("Highlight"), AsPaletteColor("HighlightText"))

ColorStyle_highlight ==
    ColorStyle_new(AsPaletteColor("HighlightText"), AsPaletteColor("Highlight"))

ColorStyle_highlight_inactive ==
    ColorStyle_new(AsPaletteColor("HighlightText"), AsPaletteColor("HighlightInactive"))

\* Mutation: the two channels are written to the wrong fields.
ColorStyle_merge_crossed(a, b) ==
    [front |-> ColorType_merge(a.back, b.back),
     back  |-> ColorType_merge(a.front, b.front)]

ColorStyle_merge(a, b) ==
    [front |-> ColorType_merge(a.front, b.front),
     back  |-> ColorType_merge(a.back, b.back)]

\* Mutation: the back channel inherits from the parent's front colour.
ColorStyle_resolve_prev_front(self, palette, previous) ==
    [front |-> ColorType_resolve(self.front, palette, previous.front),
     back  |-> ColorType_resolve(self.back, palette, previous.front)]

ColorStyle_resolve(self, palette, previous) ==
    [front |-> ColorType_resolve(self.front, palette, previous.front),
     back  |-> ColorType_resolve(self.back, palette, previous.back)]

\* Mutation: the conversion sets the background instead of the foreground.
ColorStyle_from_Color_back(color) == ColorStyle_back(AsColor(color))

\* impl From<Color> for ColorStyle
ColorStyle_from_Color(color) == ColorStyle_front(AsColor(color))

\* impl From<BaseColor> for ColorStyle
ColorStyle_from_BaseColor(color) == ColorStyle_front(AsColor(Dark(color)))

\* impl From<PaletteColor> for ColorStyle
ColorStyle_from_PaletteColor(color) == ColorStyle_front(AsPaletteColor(color))

\* impl From<ColorType> for ColorStyle
ColorStyle_from_ColorType(color) == ColorStyle_front(AsColorType(color))

\* impl<F, B> From<(F, B)> for ColorStyle
ColorStyle_from_tuple(front, back) == ColorStyle_new(front, back)

(***************************************************************************)
(* Inputs.                                                                 *)
(***************************************************************************)
\* Arguments given to the generic constructors: one of each static type.
Args == {AsColor(Dark("Red")), AsPaletteColor("View"), AsColorType(InheritParent)}

\* Arguments of the conversions.
ArgColors == {TerminalDefault, Light("Magenta")}
ArgBaseColors == {"Red", "White"}
ArgPaletteColors == {"Primary", "Highlight"}
ArgColorTypes == {InheritParent, CT_Color(Light("Green")), CT_Palette("Shadow")}

\* Channel values of the overrides folded under SpecFold.
FoldArgs ==
    {AsColorType(InheritParent), AsColor(Dark("Red")), AsColor(Light("Cyan")),
     AsPaletteColor("View")}

\* Colour pairs of the enclosing drawing context.
PreviousPairs ==
    {ColorPair(f, b) : f \in {TerminalDefault, Light("Green")},
                       b \in {TerminalDefault, Dark("Magenta")}}

(***************************************************************************)
(* State.                                                                  *)
(***************************************************************************)
VARIABLES
    palette,    \* the palette of the draw pass
    previous,   \* the colour pair of the enclosing context
    styles,     \* the overrides contributed so far, in application order
    style,      \* the effective style: the overrides merged left to right
    merged,     \* the effective style resolved against palette and previous
    nested,     \* each override resolved in turn, the preceding pair as previous
    last        \* the constructor call that built the last override

vars == <<palette, previous, styles, style, merged, nested, last>>

Init ==
    /\ palette \in Palettes
    /\ previous \in PreviousPairs
    /\ styles = <<>>
    /\ style = ColorStyle_default
    /\ merged = ColorStyle_resolve(ColorStyle_default, palette, previous)
    /\ nested = previous
    /\ last = [fn |-> "default", args |-> <<>>, base |-> ColorStyle_default,
               prev |-> previous, out |-> ColorStyle_default]

\* An element contributes the override `s`, built by constructor `fn` from
\* `args`: it is merged over the style in effect and resolved.
Apply(fn, args, s) ==
    /\ styles' = Append(styles, s)
    /\ style' = ColorStyle_merge(style, s)
    /\ merged' = ColorStyle_resolve(ColorStyle_merge(style, s), palette, previous)
    /\ nested' = ColorStyle_resolve(s, palette, nested)
    /\ last' = [fn |-> fn, args |-> args, base |-> style, prev |-> nested, out |-> s]
    /\ UNCHANGED <<palette, previous>>

New ==
    /\ Len(styles) < MaxLayers
    /\ \E f \in Args, b \in Args : Apply("new", <<f, b>>, ColorStyle_new(f, b))

Front ==
    /\ Len(styles) < MaxLayers
    /\ \E f \in Args : Apply("front", <<f>>, ColorStyle_front(f))

Back ==
    /\ Len(styles) < MaxLayers
    /\ \E b \in Args : Apply("back", <<b>>, ColorStyle_back(b))

\* reverse video of the style in effect
Invert ==
    /\ Len(styles) < MaxLayers
    /\ Apply("invert", <<>>, ColorStyle_invert(style))

InheritParentStyle ==
    /\ Len(styles) < MaxLayers
    /\ Apply("inherit_parent", <<>>, ColorStyle_inherit_parent)

TerminalDefaultStyle ==
    /\ Len(styles) < MaxLayers
    /\ Apply("terminal_default", <<>>, ColorStyle_terminal_default)

Background ==
    /\ Len(styles) < MaxLayers
    /\ Apply("background", <<>>, ColorStyle_background)

Shadow ==
    /\ Len(styles) < MaxLayers
    /\ Apply("shadow", <<>>, ColorStyle_shadow)

Primary ==
    /\ Len(styles) < MaxLayers
    /\ Apply("primary", <<>>, ColorStyle_primary)

Secondary ==
    /\ Len(styles) < MaxLayers
    /\ Apply("secondary", <<>>, ColorStyle_secondary)

Tertiary ==
    /\ Len(styles) < MaxLayers
    /\ Apply("tertiary", <<>>, ColorStyle_tertiary)

TitlePrimary ==
    /\ Len(styles) < MaxLayers
    /\ Apply("title_primary", <<>>, ColorStyle_title_primary)

TitleSecondary ==
    /\ Len(styles) < MaxLayers
    /\ Apply("title_secondary", <<>>, ColorStyle_title_secondary)

Highlight ==
    /\ Len(styles) < MaxLayers
    /\ Apply("highlight", <<>>, ColorStyle_highlight)

HighlightInactive ==
    /\ Len(styles) < MaxLayers
    /\ Apply("highlight_inactive", <<>>, ColorStyle_highlight_inactive)

FromColor ==
    /\ Len(styles) < MaxLayers
    /\ \E c \in ArgColors : Apply("from_Color", <<AsColor(c)>>, ColorStyle_from_Color(c))

FromBaseColor ==
    /\ Len(styles) < MaxLayers
    /\ \E c \in ArgBaseColors :
          Apply("from_BaseColor", <<[ty |-> "BaseColor", val |-> c]>>,
                ColorStyle_from_BaseColor(c))

FromPaletteColor ==
    /\ Len(styles) < MaxLayers
    /\ \E c \in ArgPaletteColors :
          Apply("from_PaletteColor", <<AsPaletteColor(c)>>, ColorStyle_from_PaletteColor(c))

FromColorType ==
    /\ Len(styles) < MaxLayers
    /\ \E c \in ArgColorTypes :
          Apply("from_ColorType", <<AsColorType(c)>>, ColorStyle_from_ColorType(c))

FromTuple ==
    /\ Len(styles) < MaxLayers
    /\ \E f \in Args, b \in Args :
          Apply("from_tuple", <<f, b>>, ColorStyle_from_tuple(f, b))

Next ==
    \/ New
    \/ Front
    \/ Back
    \/ Invert
    \/ InheritParentStyle
    \/ TerminalDefaultStyle
    \/ Background
    \/ Shadow
    \/ Primary
    \/ Secondary
    \/ Tertiary
    \/ TitlePrimary
    \/ TitleSecondary
    \/ Highlight
    \/ HighlightInactive
    \/ FromColor
    \/ FromBaseColor
    \/ FromPaletteColor
    \/ FromColorType
    \/ FromTuple

Spec == Init /\ [][Next]_vars

\* The fold of section 6: overrides given as explicit pairs, merged in
\* application order.
Override ==
    /\ Len(styles) < MaxDepth
    /\ \E f \in FoldArgs, b \in FoldArgs : Apply("new", <<f, b>>, ColorStyle_new(f, b))

NextFold == Override

SpecFold == Init /\ [][NextFold]_vars

(***************************************************************************)
(* Properties.                                                             *)
(***************************************************************************)
Channels == {"front", "back"}

\* The styles of the run: the overrides, and the style in effect.
History == {styles[i] : i \in 1..Len(styles)} \cup {style}

\* C1: ColorType::merge is right-biased and inherit-transparent: in each
\* channel, merging an InheritParent override leaves the value in effect,
\* and merging any other override yields the override, whatever was in effect.
C1_MergeRightBiased ==
    last.fn # "default" =>
        \A ch \in Channels :
            /\ last.out[ch] = InheritParent => style[ch] = last.base[ch]
            /\ last.out[ch] # InheritParent => style[ch] = last.out[ch]

\* C1 witness: a non-inherit front kept under an InheritParent override,
\* and a non-inherit back replaced by a different non-inherit override.
C1_Witness ==
    /\ Len(styles) = 2
    /\ last.base.front # InheritParent
    /\ last.out.front = InheritParent
    /\ style.front = last.base.front
    /\ last.base.back # InheritParent
    /\ last.out.back # InheritParent
    /\ last.out.back # last.base.back
    /\ style.back = last.out.back

\* The overrides merged right to left: s1 over (s2 over (... over default)).
RECURSIVE MergeRight(_)
MergeRight(seq) ==
    IF seq = <<>> THEN ColorStyle_default
    ELSE ColorStyle_merge(Head(seq), MergeRight(Tail(seq)))

\* C2: merge is associative, for ColorStyle values and for the ColorType
\* values of their channels: merge(merge(a,b),c) = merge(a,merge(b,c)) for
\* all styles of the run; hence the left-to-right fold equals the
\* right-to-left one.
C2_MergeAssociative ==
    LET T == {s.front : s \in History} \cup {s.back : s \in History} IN
    /\ \A a \in History, b \in History, c \in History :
          ColorStyle_merge(ColorStyle_merge(a, b), c)
              = ColorStyle_merge(a, ColorStyle_merge(b, c))
    /\ \A a \in T, b \in T, c \in T :
          ColorType_merge(ColorType_merge(a, b), c)
              = ColorType_merge(a, ColorType_merge(b, c))
    /\ style = MergeRight(styles)

\* C2 witness: three overrides whose front channels are set, inherited, set
\* (to three different effect) and whose back channels differ from the fronts.
C2_Witness ==
    /\ Len(styles) = 3
    /\ styles[1].front # InheritParent
    /\ styles[2].front = InheritParent
    /\ styles[3].front # InheritParent
    /\ styles[3].front # styles[1].front
    /\ styles[1].back # InheritParent
    /\ styles[2].back # InheritParent
    /\ styles[2].back # styles[1].back
    /\ styles[3].back = InheritParent
    /\ styles[2].back # styles[3].front

\* The rightmost value of channel ch in seq that is not InheritParent, or
\* InheritParent when there is none.
Rightmost(seq, ch) ==
    LET I == {i \in 1..Len(seq) : seq[i][ch] # InheritParent} IN
    IF I = {} THEN InheritParent
    ELSE seq[CHOOSE i \in I : \A j \in I : j <= i][ch]

\* C3: at every step of the fold, each channel of the accumulated style is
\* the rightmost non-InheritParent value of that channel among the base
\* style and the overrides, or InheritParent if there is none.
\* The first override, merged over the default style, is the base s0.
C3_FoldRightmost ==
    \A ch \in Channels :
        /\ style[ch] = Rightmost(<<ColorStyle_default>> \o styles, ch)
        /\ styles # <<>> => style[ch] = Rightmost(styles, ch)

\* C3 witness: after three overrides the front comes from the first one and
\* the back from the second, the later ones inheriting.
C3_Witness ==
    /\ Len(styles) = 3
    /\ styles[1].front # InheritParent
    /\ styles[2].front = InheritParent
    /\ styles[3].front = InheritParent
    /\ style.front = styles[1].front
    /\ styles[1].back # InheritParent
    /\ styles[2].back # InheritParent
    /\ styles[2].back # styles[1].back
    /\ styles[3].back = InheritParent
    /\ style.back = styles[2].back

\* What section 4.1 says a colour source resolves to.
Resolved(t, pal, prev) ==
    IF t \in {CT_Color(c) : c \in Color} THEN t.color
    ELSE IF t \in {CT_Palette(r) : r \in PaletteColor} THEN pal[t.role]
    ELSE prev

\* C4: ColorStyle::resolve is channel-wise ColorType::resolve: Color(c)
\* gives c, Palette(role) the palette's colour of the role, InheritParent
\* the previous colour of the same channel; inherit_parent() resolves to
\* the previous pair.
C4_Resolve ==
    /\ merged = ColorPair(Resolved(style.front, palette, previous.front),
                          Resolved(style.back, palette, previous.back))
    /\ nested = ColorPair(Resolved(last.out.front, palette, last.prev.front),
                          Resolved(last.out.back, palette, last.prev.back))
    /\ last.fn = "inherit_parent" => nested = last.prev

\* C4 witness: inherit_parent() resolved against a pair that differs from
\* the outer context in both channels, under a style with a direct colour
\* in front and a palette role at the back.
C4_Witness ==
    /\ last.fn = "inherit_parent"
    /\ last.prev.front # previous.front
    /\ last.prev.back # previous.back
    /\ last.prev.front # last.prev.back
    /\ nested = last.prev
    /\ style.front.tag = "Color"
    /\ style.back.tag = "Palette"
    /\ merged.back = palette[style.back.role]

\* The channel values an operand is varied over.
Variants == {Into_ColorType(x) : x \in FoldArgs} \cup {CT_Palette("Highlight")}

\* C5: front and back are independent through merge and resolve: varying
\* the other channel of either merge operand, or of the previous pair,
\* never changes a channel of the resolved pair.
C5_ChannelsIndependent ==
    LET a == last.base
        b == last.out
        R(x, y, pv) == ColorStyle_resolve(ColorStyle_merge(x, y), palette, pv)
    IN
    /\ merged = R(a, b, previous)
    /\ \A v \in Variants :
          /\ R(a, [b EXCEPT !.back = v], previous).front = merged.front
          /\ R([a EXCEPT !.back = v], b, previous).front = merged.front
          /\ R(a, [b EXCEPT !.front = v], previous).back = merged.back
          /\ R([a EXCEPT !.front = v], b, previous).back = merged.back
    /\ \A c \in Color :
          /\ R(a, b, [previous EXCEPT !.back = c]).front = merged.front
          /\ R(a, b, [previous EXCEPT !.front = c]).back = merged.back

\* C5 witness: the override sets only the front; the back is inherited all
\* the way from the previous pair, whose channels differ.
C5_Witness ==
    /\ Len(styles) = 2
    /\ last.out.front # InheritParent
    /\ last.out.back = InheritParent
    /\ last.base.front # InheritParent
    /\ last.base.back = InheritParent
    /\ previous.front # previous.back
    /\ merged.back = previous.back
    /\ merged.front # previous.front

\* C6: invert swaps the channels and is an involution.
C6_InvertInvolution ==
    /\ last.fn = "invert" =>
          /\ last.out = [front |-> last.base.back, back |-> last.base.front]
          /\ ColorStyle_invert(last.out) = last.base
    /\ \A s \in History : ColorStyle_invert(ColorStyle_invert(s)) = s

\* C6 witness: a style with different channels has been inverted.
C6_Witness ==
    /\ last.fn = "invert"
    /\ last.base.front # last.base.back
    /\ last.base.front # InheritParent
    /\ last.out.back = last.base.front

\* The role table of section 4.2.
PresetTable ==
    [background         |-> <<"Background", "Background">>,
     shadow             |-> <<"Shadow", "Shadow">>,
     primary            |-> <<"Primary", "View">>,
     secondary          |-> <<"Secondary", "View">>,
     tertiary           |-> <<"Tertiary", "View">>,
     title_primary      |-> <<"TitlePrimary", "View">>,
     title_secondary    |-> <<"TitleSecondary", "View">>,
     highlight          |-> <<"HighlightText", "Highlight">>,
     highlight_inactive |-> <<"HighlightText", "HighlightInactive">>]

\* C7: every named preset has the pairing of the role table and no
\* InheritParent channel, so it resolves to the palette's colours of its
\* roles whatever the previous pair; terminal_default() resolves to
\* {TerminalDefault, TerminalDefault} whatever the palette.
C7_Presets ==
    /\ last.fn \in DOMAIN PresetTable =>
          LET row == PresetTable[last.fn]
              pair == ColorPair(palette[row[1]], palette[row[2]])
          IN
          /\ last.out = [front |-> CT_Palette(row[1]), back |-> CT_Palette(row[2])]
          /\ nested = pair
          /\ \A pv \in PreviousPairs :
                ColorStyle_resolve(last.out, palette, pv) = pair
    /\ last.fn = "terminal_default" =>
          /\ last.out = [front |-> CT_Color(TerminalDefault),
                         back  |-> CT_Color(TerminalDefault)]
          /\ nested = ColorPair(TerminalDefault, TerminalDefault)
          /\ \A pv \in PreviousPairs :
                ColorStyle_resolve(last.out, palette, pv)
                    = ColorPair(TerminalDefault, TerminalDefault)

\* C7 witness: highlight() over another style, HighlightText = White and
\* Highlight = Blue in the palette.
C7_Witness ==
    /\ last.fn = "highlight"
    /\ Len(styles) = 2
    /\ palette["HighlightText"] = Dark("White")
    /\ palette["Highlight"] = Light("Blue")
    /\ last.prev # previous
    /\ nested = ColorPair(Dark("White"), Light("Blue"))

\* C8: a single-channel override changes only its channel; primary()
\* overridden by front(Color(Red)) is {Color(Red), Palette(View)}, which
\* resolves to {Red, palette[View]}.
C8_SingleChannelOverride ==
    /\ (last.fn = "front" /\ Into_ColorType(last.args[1]) # InheritParent) =>
          style = [front |-> Into_ColorType(last.args[1]), back |-> last.base.back]
    /\ (last.fn = "back" /\ Into_ColorType(last.args[1]) # InheritParent) =>
          style = [front |-> last.base.front, back |-> Into_ColorType(last.args[1])]
    /\ (/\ last.fn = "front"
        /\ last.args = <<AsColor(Dark("Red"))>>
        /\ last.base = [front |-> CT_Palette("Primary"), back |-> CT_Palette("View")]) =>
          /\ style = [front |-> CT_Color(Dark("Red")), back |-> CT_Palette("View")]
          /\ merged = ColorPair(Dark("Red"), palette["View"])

\* C8 witness: primary() overridden by front(Red), View = Black.
C8_Witness ==
    /\ Len(styles) = 2
    /\ styles[1] = [front |-> CT_Palette("Primary"), back |-> CT_Palette("View")]
    /\ last.fn = "front"
    /\ last.args = <<AsColor(Dark("Red"))>>
    /\ palette["View"] = Dark("Black")
    /\ merged = ColorPair(Dark("Red"), Dark("Black"))

\* C9: the conversion from a Color, a base colour (as its dark colour), a
\* PaletteColor or a ColorType is front(..) of the value, the back channel
\* InheritParent; the conversion from a tuple is new(front, back).
C9_Conversions ==
    /\ last.fn = "from_Color" =>
          /\ last.out = ColorStyle_front(last.args[1])
          /\ last.out = [front |-> CT_Color(last.args[1].val), back |-> InheritParent]
    /\ last.fn = "from_BaseColor" =>
          /\ last.out = ColorStyle_front(AsColor(Dark(last.args[1].val)))
          /\ last.out = [front |-> CT_Color(Dark(last.args[1].val)),
                         back  |-> InheritParent]
    /\ last.fn = "from_PaletteColor" =>
          /\ last.out = ColorStyle_front(last.args[1])
          /\ last.out = [front |-> CT_Palette(last.args[1].val), back |-> InheritParent]
    /\ last.fn = "from_ColorType" =>
          /\ last.out = ColorStyle_front(last.args[1])
          /\ last.out = [front |-> last.args[1].val, back |-> InheritParent]
    /\ last.fn = "from_tuple" =>
          /\ last.out = ColorStyle_new(last.args[1], last.args[2])
          /\ last.out = [front |-> Into_ColorType(last.args[1]),
                         back  |-> Into_ColorType(last.args[2])]

\* C9 witness: a bare Color converted over a style with a background: the
\* background stays.
C9_Witness ==
    /\ Len(styles) = 2
    /\ last.fn = "from_Color"
    /\ last.args[1].val = Light("Magenta")
    /\ last.base.back # InheritParent
    /\ style = [front |-> CT_Color(Light("Magenta")), back |-> last.base.back]

\* C10: resolving the merged style equals resolving in nested order:
\* resolve(merge(a,b), p, prev) = resolve(b, p, resolve(a, p, prev)); and
\* the fold's merged style resolves to what the overrides give resolved one
\* after the other.
C10_MergeThenResolve ==
    /\ merged = nested
    /\ \A pv \in PreviousPairs \cup {last.prev} :
          ColorStyle_resolve(ColorStyle_merge(last.base, last.out), palette, pv)
              = ColorStyle_resolve(last.out, palette,
                                   ColorStyle_resolve(last.base, palette, pv))

\* C10 witness: three overrides, the last one inheriting its front from the
\* second-last and its back from the previous pair.
C10_Witness ==
    /\ Len(styles) = 3
    /\ styles[1].front # InheritParent
    /\ styles[2].front # InheritParent
    /\ styles[2].front # styles[1].front
    /\ styles[3].front = InheritParent
    /\ styles[1].back = InheritParent
    /\ styles[2].back = InheritParent
    /\ styles[3].back = InheritParent
    /\ merged.back = previous.back
    /\ merged.front # previous.front
    /\ merged = nested

=============================================================================
